---- MODULE Spec2Model ----
(***************************************************************************)
(* Replay buffers of torch_baselines/common/buffers.py:                    *)
(*   ReplayBuffer, EfficentReplayBuffer, PrioritizedReplayBuffer,          *)
(*   EpisodicReplayBuffer, PrioritizedEpisodicReplayBuffer.                *)
(* Floats are modelled as exact rationals <<numerator, denominator>>.      *)
(* The segment trees (torch_baselines/common/segment_tree.py) are not part *)
(* of the sources at hand; they are modelled from section 4.1 of the       *)
(* specification.                                                          *)
(***************************************************************************)
EXTENDS Integers, Sequences, FiniteSets, TLC

(* ------------------------------ bounds -------------------------------- *)
MaxCap == 2
MaxAdds == 3
MaxUpdates == 1
MaxNStep == 2
WorkerSize == 2
MassGrid == 3
MaxSizing == 16

(* ------------------------- program constants -------------------------- *)
DecayNum == 19
DecayDen == 20
InitMaxPriorityNum == 1

(* --------------------------- input domains ---------------------------- *)
Capacities == 1..MaxCap
Rewards == {1, 2}
Workers == 0..(WorkerSize - 1)
Alphas == {0, 1, 2}
Betas == {-1, 0, 1}
BatchSizes == {0, 1, 2}
PriorityInputs == {0, 1, 3}
GammaInputs == {<<1, 2>>}
\* (done, terminal) as a training loop passes them: terminal = done or truncated
DoneTerminal == {<<FALSE, FALSE>>, <<FALSE, TRUE>>, <<TRUE, TRUE>>}

(* ------------------------- exact rationals ---------------------------- *)
Abs(n) == IF n < 0 THEN -n ELSE n

RECURSIVE GCD(_, _)
GCD(a, b) == IF b = 0 THEN a ELSE GCD(b, a % b)

\* the rational n/d in lowest terms, d > 0
Rat(n, d) ==
    LET g == GCD(Abs(n), d)
    IN  IF n < 0 THEN <<-(Abs(n) \div g), d \div g>> ELSE <<n \div g, d \div g>>

Int2Rat(n) == <<n, 1>>
Zero == <<0, 1>>
One == <<1, 1>>
\* +infinity, the identity of min
Inf == <<1, 0>>

LCM(a, b) == (a \div GCD(a, b)) * b

RAdd(x, y) ==
    LET l == LCM(x[2], y[2])
    IN  Rat(x[1] * (l \div x[2]) + y[1] * (l \div y[2]), l)

RSub(x, y) == RAdd(x, <<-y[1], y[2]>>)

\* cross-cancelled product of two finite rationals
RMul(x, y) ==
    LET g1 == GCD(Abs(x[1]), y[2])
        g2 == GCD(Abs(y[1]), x[2])
        h1 == IF g1 = 0 THEN 1 ELSE g1
        h2 == IF g2 = 0 THEN 1 ELSE g2
    IN  Rat((x[1] \div h1) * (y[1] \div h2), (x[2] \div h2) * (y[2] \div h1))

\* 1/x for x > 0
RInv(x) == <<x[2], x[1]>>

RDiv(x, y) == RMul(x, RInv(y))

RLess(x, y) ==
    IF x = Inf THEN FALSE
    ELSE IF y = Inf THEN TRUE
    ELSE LET l == LCM(x[2], y[2])
         IN  x[1] * (l \div x[2]) < y[1] * (l \div y[2])

RLeq(x, y) == x = y \/ RLess(x, y)

RMin(x, y) == IF RLess(y, x) THEN y ELSE x

RMax(x, y) == IF RLess(x, y) THEN y ELSE x

\* x ** k for a natural exponent k (0 ** 0 = 1 as in Python)
RECURSIVE RPow(_, _)
RPow(x, k) == IF k = 0 THEN One ELSE RMul(x, RPow(x, k - 1))

RECURSIVE SeqMax(_)
SeqMax(s) == IF Len(s) = 1 THEN s[1] ELSE RMax(s[1], SeqMax(Tail(s)))

RECURSIVE SeqMinInt(_)
SeqMinInt(s) ==
    IF Len(s) = 1 THEN s[1]
    ELSE LET m == SeqMinInt(Tail(s)) IN IF s[1] < m THEN s[1] ELSE m

RECURSIVE SeqMaxInt(_)
SeqMaxInt(s) ==
    IF Len(s) = 1 THEN s[1]
    ELSE LET m == SeqMaxInt(Tail(s)) IN IF s[1] > m THEN s[1] ELSE m

\* all sequences over S whose length is in lens
SeqsOf(S, lens) == UNION {[1..n -> S] : n \in lens}

(* ---------------- order-statistics tree (section 4.1) ----------------- *)
\* A tree of capacity N is the array of its 2N-1 nodes: root 1, children of
\* node v are 2v and 2v+1, leaf i is node N+i.
TreeCap(tree) == (Len(tree) + 1) \div 2

Operation(op, a, b) == IF op = "sum" THEN RAdd(a, b) ELSE RMin(a, b)

Identity(op) == IF op = "sum" THEN Zero ELSE Inf

NewTree(op, capacity) == [v \in 1..(2 * capacity - 1) |-> Identity(op)]

Leaf(tree, i) == tree[TreeCap(tree) + i]

RECURSIVE FixUp(_, _, _)
FixUp(op, tree, node) ==
    IF node = 0 THEN tree
    ELSE FixUp(op,
               [tree EXCEPT ![node] = Operation(op, tree[2 * node], tree[2 * node + 1])],
               node \div 2)

\* set(index, value): updates the leaf and all ancestor aggregates
TreeSetLeafOnly(op, tree, i, val) == [tree EXCEPT ![TreeCap(tree) + i] = val]
TreeSet(op, tree, i, val) ==
    LET node == TreeCap(tree) + i
    IN  FixUp(op, [tree EXCEPT ![node] = val], node \div 2)

\* set applied to arrays of indices and values, in order
RECURSIVE TreeSetAll(_, _, _, _)
TreeSetAll(op, tree, idxes, vals) ==
    IF Len(idxes) = 0 THEN tree
    ELSE TreeSetAll(op, TreeSet(op, tree, idxes[1], vals[1]), Tail(idxes), Tail(vals))

\* range_reduce(lo, hi): the reduction over leaves lo..hi inclusive, by
\* descending from the root over the node intervals
RECURSIVE ReduceHelper(_, _, _, _, _, _, _)
ReduceHelper(op, tree, lo, hi, node, nlo, nhi) ==
    IF hi < nlo \/ nhi < lo THEN Identity(op)
    ELSE IF lo <= nlo /\ nhi <= hi THEN tree[node]
    ELSE LET mid == (nlo + nhi) \div 2
         IN  Operation(op,
                       ReduceHelper(op, tree, lo, hi, 2 * node, nlo, mid),
                       ReduceHelper(op, tree, lo, hi, 2 * node + 1, mid + 1, nhi))

RangeReduce(op, tree, lo, hi) ==
    ReduceHelper(op, tree, lo, hi, 1, 0, TreeCap(tree) - 1)

\* total() / minimum(): the root
Total(tree) == tree[1]
Minimum(tree) == tree[1]

\* find_prefix(mass): left child iff mass < left subtree sum
RECURSIVE FindPrefixFromTiesLeft(_, _, _)
FindPrefixFromTiesLeft(tree, node, mass) ==
    IF node >= TreeCap(tree) THEN node - TreeCap(tree)
    ELSE IF RLeq(mass, tree[2 * node])
         THEN FindPrefixFromTiesLeft(tree, 2 * node, mass)
         ELSE FindPrefixFromTiesLeft(tree, 2 * node + 1, RSub(mass, tree[2 * node]))
RECURSIVE FindPrefixFrom(_, _, _)
FindPrefixFrom(tree, node, mass) ==
    IF node >= TreeCap(tree) THEN node - TreeCap(tree)
    ELSE IF RLess(mass, tree[2 * node])
         THEN FindPrefixFrom(tree, 2 * node, mass)
         ELSE FindPrefixFrom(tree, 2 * node + 1, RSub(mass, tree[2 * node]))

FindPrefix(tree, mass) == FindPrefixFrom(tree, 1, mass)

(* ------------------------------- state -------------------------------- *)
VARIABLES
    kind,          \* the class of the buffer object
    maxsize,       \* self._maxsize
    storage,       \* self._storage (EfficentReplayBuffer: the preallocated arrays)
    next_idx,      \* self._next_idx
    storage_size,  \* EfficentReplayBuffer.storage_size
    alpha,         \* self._alpha
    it_sum,        \* self._it_sum
    it_min,        \* self._it_min
    max_priority,  \* self._max_priority
    episodes,      \* self.episodes
    worker_ep,     \* self.worker_ep
    n_step,        \* self.n_step
    gamma,         \* self.gamma
    ret,           \* the outcome of the latest call: what it returned or raised
    nadds,         \* history: number of add calls so far
    nupdates,      \* history: number of accepted update_priorities calls so far
    hist,          \* history: the record written by each add, in call order
    evicted,       \* history: the record the latest add overwrote, if any
    assigned,      \* history: the priority last given to the record of each slot
    twin,          \* a PrioritizedReplayBuffer run beside the buffer, if any
    sampled        \* history: the slot indices a noted sample returned, and the
                   \* number of adds made before it

vars == <<kind, maxsize, storage, next_idx, storage_size, alpha, it_sum, it_min,
          max_priority, episodes, worker_ep, n_step, gamma, ret, nadds, nupdates,
          hist, evicted, assigned, twin, sampled>>

ringVars == <<storage, next_idx, storage_size>>
treeVars == <<it_sum, it_min, max_priority>>
epiVars == <<episodes, worker_ep>>
paramVars == <<kind, maxsize, alpha, n_step, gamma>>
histVars == <<nadds, hist, evicted, assigned>>
sideVars == <<twin, sampled>>

RingKinds == {"ReplayBuffer", "EfficentReplayBuffer"}
PriorityKinds == {"PrioritizedReplayBuffer", "PrioritizedEpisodicReplayBuffer"}
EpisodicKinds == {"EpisodicReplayBuffer", "PrioritizedEpisodicReplayBuffer"}
AllKinds == RingKinds \cup PriorityKinds \cup EpisodicKinds

\* __len__
Length ==
    IF kind = "EfficentReplayBuffer" THEN storage_size ELSE Len(storage)

\* slot i (0-based) of the storage
Slot(i) == storage[i + 1]

\* an outcome: the method, the exception raised ("none": it returned), the value
\* returned and the slot indices the call drew or was given
RetI(op, exc, val, idxes) == [op |-> op, exc |-> exc, val |-> val, idxes |-> idxes]
Ret(op, exc, val) == RetI(op, exc, val, <<>>)

(* ---------------------------- construction ---------------------------- *)
\* the loop sizing the trees
RECURSIVE ItCapacityLoopInclusive(_, _)
ItCapacityLoopInclusive(it_capacity, size) ==
    IF it_capacity <= size THEN ItCapacityLoopInclusive(it_capacity * 2, size)
    ELSE it_capacity
RECURSIVE ItCapacityLoop(_, _)
ItCapacityLoop(it_capacity, size) ==
    IF it_capacity < size THEN ItCapacityLoop(it_capacity * 2, size) ELSE it_capacity

ItCapacity(size) == ItCapacityLoop(1, size)

\* self._max_priority = 1.0
InitMaxPriorityZero == <<0, 1>>
InitMaxPriority == Int2Rat(InitMaxPriorityNum)

\* np.zeros rows of EfficentReplayBuffer
ZeroRow == [obs |-> 0, action |-> 0, reward |-> 0, nxtobs |-> 0, done |-> 0]

InitStorage(k, size) ==
    IF k = "EfficentReplayBuffer" THEN [i \in 1..size |-> ZeroRow] ELSE <<>>

InitFields(k, size, a, n, g) ==
    /\ kind = k
    /\ maxsize = size
    /\ storage = InitStorage(k, size)
    /\ next_idx = 0
    /\ storage_size = 0
    /\ alpha = IF k \in PriorityKinds THEN a ELSE 0
    /\ it_sum = IF k \in PriorityKinds THEN NewTree("sum", ItCapacity(size)) ELSE <<>>
    /\ it_min = IF k \in PriorityKinds THEN NewTree("min", ItCapacity(size)) ELSE <<>>
    /\ max_priority = IF k \in PriorityKinds THEN InitMaxPriority ELSE Zero
    /\ episodes = <<>>
    /\ worker_ep = IF k \in EpisodicKinds THEN [w \in Workers |-> 0] ELSE <<>>
    /\ n_step = IF k \in EpisodicKinds THEN n ELSE 0
    /\ gamma = IF k \in EpisodicKinds THEN g ELSE Zero
    /\ ret = Ret("init", "none", <<>>)
    /\ nadds = 0
    /\ nupdates = 0
    /\ hist = <<>>
    /\ evicted = <<>>
    /\ assigned = IF k \in PriorityKinds THEN [i \in 1..size |-> Zero] ELSE <<>>

\* no second buffer
NoTwin == <<>>

\* no sample noted
NoSample == [idxes |-> <<>>, at |-> 0]

\* a buffer constructed on its own
InitBuffer(k, size, a, n, g) ==
    /\ InitFields(k, size, a, n, g)
    /\ twin = NoTwin
    /\ sampled = NoSample

(* -------------------------------- add --------------------------------- *)
\* the values a call returns, as a tuple: none for a method that ends without
\* a return statement
None == <<>>

\* what add returns after writing slot idx: the method has no return statement
AddReturnsIndex(idx) == <<idx>>
AddReturns(idx) == None

\* Python's % for a >= 0: the result takes the sign of the divisor
PyMod(a, b) ==
    IF b > 0 THEN a % b
    ELSE IF a % (-b) = 0 THEN 0 ELSE (a % (-b)) + b

\* the cursor update divides by the capacity: ZeroDivisionError when it is 0
NextIdxRaises(size) == size = 0

\* self._next_idx = (self._next_idx + 1) % self._maxsize
NextIdxNoWrap(idx, size) == idx + 1
NextIdx(idx, size) == PyMod(idx + 1, size)

\* the outcome of an add whose writes are done: the cursor update ends it
AddOutcome(idx, size) ==
    IF NextIdxRaises(size) THEN Ret("add", "ZeroDivisionError", <<>>)
    ELSE Ret("add", "none", AddReturns(idx))

\* append while the cursor is past the end of the list, overwrite otherwise
StorageWriteAppendOnly(st, idx, data) == Append(st, data)
StorageWrite(st, idx, data) ==
    IF idx >= Len(st) THEN Append(st, data) ELSE [st EXCEPT ![idx + 1] = data]

\* the record a write at idx replaces, if any
Overwritten(st, idx) == IF idx >= Len(st) THEN <<>> ELSE <<st[idx + 1]>>

Data(obs, action, reward, nxtobs, done) ==
    [obs |-> obs, action |-> action, reward |-> reward, nxtobs |-> nxtobs, done |-> done]

\* the observation the caller passes with its k-th add, and the next one
ObsOf(k) == k
NxtObsOf(k) == k + 1

\* ReplayBuffer.add
ReplayBufferAdd(reward, done) ==
    LET data == Data(ObsOf(nadds + 1), 0, reward, NxtObsOf(nadds + 1), done)
    IN  /\ storage' = StorageWrite(storage, next_idx, data)
        /\ next_idx' = IF NextIdxRaises(maxsize) THEN next_idx
                       ELSE NextIdx(next_idx, maxsize)
        /\ hist' = Append(hist, data)
        /\ evicted' = Overwritten(storage, next_idx)

RingAdd(reward, done) ==
    /\ kind = "ReplayBuffer"
    /\ nadds < MaxAdds
    /\ ReplayBufferAdd(reward, done)
    /\ nadds' = nadds + 1
    /\ ret' = AddOutcome(next_idx, maxsize)
    /\ UNCHANGED <<paramVars, sideVars, storage_size, treeVars, epiVars, nupdates, assigned>>

\* the done flag as the float array of EfficentReplayBuffer stores it
BoolToFloat(b) == IF b THEN 1 ELSE 0

\* if self.storage_size < self._maxsize: self.storage_size += 1
GrowAlways(size, cap) == size + 1
Grow(size, cap) == IF size < cap THEN size + 1 ELSE size

\* EfficentReplayBuffer.add
EffAdd(reward, done) ==
    LET data == Data(ObsOf(nadds + 1), 0, reward, NxtObsOf(nadds + 1), BoolToFloat(done))
    IN  /\ kind = "EfficentReplayBuffer"
        /\ nadds < MaxAdds
        /\ nadds' = nadds + 1
        /\ IF next_idx + 1 \notin DOMAIN storage
           THEN \* the arrays have no row next_idx: the first write raises
                /\ ret' = Ret("add", "IndexError", <<>>)
                /\ evicted' = <<>>
                /\ UNCHANGED <<storage, next_idx, storage_size, hist>>
           ELSE /\ storage' = [storage EXCEPT ![next_idx + 1] = data]
                /\ next_idx' = NextIdx(next_idx, maxsize)
                /\ storage_size' = Grow(storage_size, maxsize)
                /\ hist' = Append(hist, data)
                /\ evicted' = IF next_idx < storage_size
                              THEN <<storage[next_idx + 1]>> ELSE <<>>
                /\ ret' = Ret("add", "none", AddReturns(next_idx))
        /\ UNCHANGED <<paramVars, sideVars, treeVars, epiVars, nupdates, assigned>>

\* idx = self._next_idx, read before super().add(...) advances the cursor
LeafIdxAfter(before, after) == after
LeafIdx(before, after) == before

\* the priority recorded for slot idx, when the buffer has such a slot
Assign(asg, idx, p) == IF idx + 1 \in DOMAIN asg THEN [asg EXCEPT ![idx + 1] = p] ELSE asg

\* self._max_priority ** self._alpha
NewLeafNoAlpha(mp, a) == mp
NewLeaf(mp, a) == RPow(mp, a)

\* the two tree writes that end the add of a priority buffer
SetNewLeavesSumOnly(idx) ==
    /\ it_sum' = TreeSet("sum", it_sum, idx, NewLeaf(max_priority, alpha))
    /\ it_min' = it_min
    /\ max_priority' = max_priority
SetNewLeaves(idx) ==
    /\ it_sum' = TreeSet("sum", it_sum, idx, NewLeaf(max_priority, alpha))
    /\ it_min' = TreeSet("min", it_min, idx, NewLeaf(max_priority, alpha))
    /\ max_priority' = max_priority

\* PrioritizedReplayBuffer.add
PrioAdd(reward, done) ==
    /\ kind = "PrioritizedReplayBuffer"
    /\ nadds < MaxAdds
    /\ ReplayBufferAdd(reward, done)
    /\ ret' = AddOutcome(next_idx, maxsize)
    /\ IF ret'.exc = "none"
       THEN /\ SetNewLeaves(LeafIdx(next_idx, next_idx'))
            /\ assigned' = Assign(assigned, next_idx, max_priority)
       ELSE UNCHANGED <<treeVars, assigned>>
    /\ nadds' = nadds + 1
    /\ UNCHANGED <<paramVars, sideVars, storage_size, epiVars, nupdates>>

\* episode_key = (worker, self.worker_ep[worker])
EpisodeKeyOfWorkerOnly(worker) == <<worker, 0>>
EpisodeKey(worker) == <<worker, worker_ep[worker]>>

\* if episode_key not in self.episodes: ... = []; then .append(self._next_idx)
AppendIndex(eps, key, idx) ==
    [k \in DOMAIN eps \cup {key} |->
        IF k = key
        THEN (IF key \in DOMAIN eps THEN Append(eps[key], idx) ELSE <<idx>>)
        ELSE eps[k]]

\* del self.episodes[key]
DelEpisodeEmptied(eps, key) == [k \in DOMAIN eps |-> IF k = key THEN <<>> ELSE eps[k]]
DelEpisode(eps, key) == [k \in DOMAIN eps \ {key} |-> eps[k]]

\* the cleanup of the overwrite branch: only a terminal record drops its episode
CleanupNever(eps, old) == eps
Cleanup(eps, old) == IF old.terminal THEN DelEpisode(eps, old.ep[1]) ELSE eps

\* whether the del of the overwrite branch raises KeyError
CleanupRaisesOnTerminal(eps, st, idx) == idx < Len(st) /\ st[idx + 1].terminal
CleanupRaises(eps, st, idx) ==
    /\ idx < Len(st)
    /\ st[idx + 1].terminal
    /\ st[idx + 1].ep[1] \notin DOMAIN eps

\* if terminal: self.worker_ep[worker] += 1
BumpAlways(wep, worker, terminal) == [wep EXCEPT ![worker] = @ + 1]
Bump(wep, worker, terminal) ==
    IF terminal THEN [wep EXCEPT ![worker] = @ + 1] ELSE wep

\* EpisodicReplayBuffer.add
EpisodicReplayBufferAdd(reward, done, worker, terminal) ==
    LET key == EpisodeKey(worker)
        eps == AppendIndex(episodes, key, next_idx)
        data == [obs |-> ObsOf(nadds + 1), action |-> 0, reward |-> reward,
                 nxtobs |-> NxtObsOf(nadds + 1), done |-> done,
                 ep |-> <<key, Len(eps[key])>>, terminal |-> terminal]
    IN  IF CleanupRaises(eps, storage, next_idx)
        THEN /\ episodes' = eps
             /\ ret' = Ret("add", "KeyError", <<>>)
             /\ hist' = hist
             /\ evicted' = <<>>
             /\ UNCHANGED <<storage, next_idx, worker_ep>>
        ELSE /\ episodes' = IF next_idx >= Len(storage) THEN eps
                            ELSE Cleanup(eps, storage[next_idx + 1])
             /\ storage' = StorageWrite(storage, next_idx, data)
             /\ next_idx' = IF NextIdxRaises(maxsize) THEN next_idx
                            ELSE NextIdx(next_idx, maxsize)
             /\ worker_ep' = IF NextIdxRaises(maxsize) THEN worker_ep
                             ELSE Bump(worker_ep, worker, terminal)
             /\ ret' = AddOutcome(next_idx, maxsize)
             /\ hist' = Append(hist, data)
             /\ evicted' = Overwritten(storage, next_idx)

EpiAdd(reward, done, worker, terminal) ==
    /\ kind = "EpisodicReplayBuffer"
    /\ nadds < MaxAdds
    /\ EpisodicReplayBufferAdd(reward, done, worker, terminal)
    /\ nadds' = nadds + 1
    /\ UNCHANGED <<paramVars, sideVars, storage_size, treeVars, nupdates, assigned>>

\* PrioritizedEpisodicReplayBuffer.add
PrioEpiAddCall(reward, done, worker, terminal) ==
    /\ kind = "PrioritizedEpisodicReplayBuffer"
    /\ nadds < MaxAdds
    /\ EpisodicReplayBufferAdd(reward, done, worker, terminal)
    /\ IF ret'.exc = "none"
       THEN /\ SetNewLeaves(LeafIdx(next_idx, next_idx'))
            /\ assigned' = Assign(assigned, next_idx, max_priority)
       ELSE UNCHANGED <<treeVars, assigned>>
    /\ nadds' = nadds + 1
    /\ UNCHANGED <<paramVars, storage_size, nupdates>>

\* the same add on a buffer that runs alone
PrioEpiAdd(reward, done, worker, terminal) ==
    /\ PrioEpiAddCall(reward, done, worker, terminal)
    /\ UNCHANGED sideVars

(* ----------------------------- can_sample ----------------------------- *)
\* can_sample(n_samples)
CanSample(n_samples) ==
    /\ ret' = Ret("can_sample", "none", Length >= n_samples)
    /\ UNCHANGED <<paramVars, sideVars, ringVars, treeVars, epiVars, histVars, nupdates>>

(* ------------------------------- sample ------------------------------- *)
Min2(a, b) == IF a < b THEN a ELSE b

Row(data) ==
    [obs |-> data.obs, action |-> data.action, reward |-> data.reward,
     nxtobs |-> data.nxtobs, done |-> data.done]

\* ReplayBuffer._encode_sample, one row per index
EncodeSample(idxes) == [k \in 1..Len(idxes) |-> Row(Slot(idxes[k]))]

\* [random.randint(lo, hi) for _ in range(n)]: the lists that can be drawn
RandIntRowsExclusive(lo, hi, n) == [1..n -> lo..(hi - 1)]
RandIntRows(lo, hi, n) == [1..n -> lo..hi]

\* ReplayBuffer.sample: random.randint(0, len - 1) per row, then _encode_sample
RingSample(batch_size) ==
    /\ kind = "ReplayBuffer"
    /\ IF batch_size > 0 /\ Len(storage) = 0
       THEN ret' = Ret("sample", "ValueError", <<>>)
       ELSE \E idxes \in RandIntRows(0, Len(storage) - 1, batch_size) :
                ret' = RetI("sample", "none", EncodeSample(idxes), idxes)
    /\ UNCHANGED <<paramVars, sideVars, ringVars, treeVars, epiVars, histVars, nupdates>>

\* EfficentReplayBuffer.sample: np.random.randint(0, storage_size - 1, size), whose
\* upper end is exclusive; _encode_sample then assigns to the append attribute
\* of a list
EffSample(batch_size) ==
    /\ kind = "EfficentReplayBuffer"
    /\ IF storage_size - 1 <= 0
       THEN ret' = Ret("sample", "ValueError", <<>>)
       ELSE \E idxes \in [1..batch_size -> 0..(storage_size - 2)] :
                ret' = RetI("sample", "AttributeError", <<>>, idxes)
    /\ UNCHANGED <<paramVars, sideVars, ringVars, treeVars, epiVars, histVars, nupdates>>

\* self.episodes[episode_key][episode_index:(episode_index+self.n_step)]
NStepIdxsFromStart(list, episode_index, n) == SubSeq(list, 1, Min2(n, Len(list)))
NStepIdxs(list, episode_index, n) ==
    SubSeq(list, episode_index + 1, Min2(episode_index + n, Len(list)))

\* the loop over nstep_idxs: reward += gamma*r; gamma *= self.gamma, the row's
\* nxtobs and done replaced by those of each record read
RECURSIVE FoldRewardOnly(_, _, _)
FoldRewardOnly(row, idxs, g) ==
    IF Len(idxs) = 0 THEN row
    ELSE FoldRewardOnly([row EXCEPT !.reward =
                                RAdd(@, RMul(g, Int2Rat(Slot(idxs[1]).reward)))],
                        Tail(idxs), RMul(g, gamma))
RECURSIVE Fold(_, _, _)
Fold(row, idxs, g) ==
    IF Len(idxs) = 0 THEN row
    ELSE LET data == Slot(idxs[1])
         IN  Fold([row EXCEPT !.reward = RAdd(@, RMul(g, Int2Rat(data.reward))),
                              !.nxtobs = data.nxtobs,
                              !.done = data.done],
                  Tail(idxs), RMul(g, gamma))

\* EpisodicReplayBuffer._encode_sample for one index
EpisodicEncodeRaisesAtBoundary(i) ==
    LET data == Slot(i)
    IN  IF data.ep[1] \notin DOMAIN episodes THEN "KeyError"
        ELSE IF data.ep[2] + n_step > Len(episodes[data.ep[1]]) THEN "IndexError"
        ELSE "none"
EpisodicEncodeRaises(i) ==
    LET data == Slot(i)
    IN  IF data.ep[1] \notin DOMAIN episodes THEN "KeyError"
        ELSE IF \E j \in 1..Len(episodes[data.ep[1]]) :
                    /\ j > data.ep[2]
                    /\ j <= data.ep[2] + n_step
                    /\ episodes[data.ep[1]][j] >= Len(storage)
             THEN "IndexError"
             ELSE "none"

EpisodicEncodeRow(i) ==
    LET data == Slot(i)
        start == [Row(data) EXCEPT !.reward = Int2Rat(data.reward)]
    IN  Fold(start, NStepIdxs(episodes[data.ep[1]], data.ep[2], n_step), gamma)

EpisodicEncodeSample(idxes) == [k \in 1..Len(idxes) |-> EpisodicEncodeRow(idxes[k])]

\* the records after the fold: the loop rebinds the locals reward, nxtobs_t and
\* done that were unpacked from the record, so the stored record keeps its own
StoredAfterFoldInPlace(st, idxes, rows) ==
    [i \in 1..Len(st) |->
        IF \E k \in 1..Len(idxes) : idxes[k] = i - 1
        THEN [st[i] EXCEPT
                 !.nxtobs = rows[CHOOSE k \in 1..Len(idxes) : idxes[k] = i - 1].nxtobs,
                 !.done = rows[CHOOSE k \in 1..Len(idxes) : idxes[k] = i - 1].done]
        ELSE st[i]]
StoredAfterFold(st, idxes, rows) == st

FirstRaise(idxes) ==
    IF \A k \in 1..Len(idxes) : EpisodicEncodeRaises(idxes[k]) = "none" THEN "none"
    ELSE LET k == CHOOSE k \in 1..Len(idxes) :
                      /\ EpisodicEncodeRaises(idxes[k]) # "none"
                      /\ \A j \in 1..(k - 1) : EpisodicEncodeRaises(idxes[j]) = "none"
         IN  EpisodicEncodeRaises(idxes[k])

\* EpisodicReplayBuffer.sample
EpiSample(batch_size) ==
    /\ kind = "EpisodicReplayBuffer"
    /\ IF batch_size > 0 /\ Len(storage) = 0
       THEN /\ ret' = Ret("sample", "ValueError", <<>>)
            /\ storage' = storage
       ELSE \E idxes \in RandIntRows(0, Len(storage) - 1, batch_size) :
                IF FirstRaise(idxes) = "none"
                THEN /\ ret' = RetI("sample", "none", EpisodicEncodeSample(idxes), idxes)
                     /\ storage' = StoredAfterFold(storage, idxes,
                                                   EpisodicEncodeSample(idxes))
                ELSE /\ ret' = RetI("sample", FirstRaise(idxes), <<>>, idxes)
                     /\ storage' = storage
    /\ UNCHANGED <<paramVars, sideVars, next_idx, storage_size, treeVars, epiVars,
                   histVars, nupdates>>

\* total = self._it_sum.sum(0, len(self._storage) - 1)
SampleTotalShort(tree, len) == RangeReduce("sum", tree, 0, len - 2)
SampleTotal(tree, len) == RangeReduce("sum", tree, 0, len - 1)

\* mass = np.random.random(size) * total, the uniform draw being u / MassGrid
Mass(u, total) == RMul(Rat(u, MassGrid), total)

\* _sample_proportional
SampleProportional(us) ==
    LET total == SampleTotal(it_sum, Len(storage))
        idx == [u \in 0..(MassGrid - 1) |-> FindPrefix(it_sum, Mass(u, total))]
    IN  [k \in 1..Len(us) |-> idx[us[k]]]

\* (p * len(self._storage)) ** (-beta)
WeightTermPositiveExponent(p, len, beta) == RPow(RMul(p, Int2Rat(len)), beta)
WeightTerm(p, len, beta) ==
    IF p[1] = 0 THEN Inf ELSE RPow(RInv(RMul(p, Int2Rat(len))), beta)

\* the importance weights of sample
WeightsNotNormalised(idxes, beta) ==
    [k \in 1..Len(idxes) |->
        WeightTerm(RDiv(Leaf(it_sum, idxes[k]), Total(it_sum)), Len(storage), beta)]
Weights(idxes, beta) ==
    LET p_min == RDiv(Minimum(it_min), Total(it_sum))
        max_weight == WeightTerm(p_min, Len(storage), beta)
    IN  [k \in 1..Len(idxes) |->
            LET p_sample == RDiv(Leaf(it_sum, idxes[k]), Total(it_sum))
                w == WeightTerm(p_sample, Len(storage), beta)
            IN  IF w = Inf THEN Inf ELSE RDiv(w, max_weight)]

\* the default of sample's beta parameter
DefaultBeta == 0

\* assert beta > 0
BetaAcceptedNonNegative(beta) == beta >= 0
BetaAccepted(beta) == beta > 0

\* PrioritizedReplayBuffer.sample / PrioritizedEpisodicReplayBuffer.sample
PrioSampleCall(batch_size, beta) ==
    /\ kind \in PriorityKinds
    /\ IF ~BetaAccepted(beta)
       THEN ret' = Ret("sample", "AssertionError", <<>>)
       ELSE IF Len(storage) = 0
       THEN \* the trees hold no mass: the division by total() yields no weight,
            \* or the row lookup fails
            \E e \in (IF batch_size > 0 THEN {"ZeroDivisionError", "IndexError"}
                      ELSE {"ZeroDivisionError", "none"}) :
                ret' = IF e = "none"
                       THEN Ret("sample", "none",
                                [rows |-> <<>>, weights |-> <<>>, idxes |-> <<>>,
                                 us |-> <<>>])
                       ELSE Ret("sample", e, <<>>)
       ELSE \E us \in [1..batch_size -> 0..(MassGrid - 1)] :
            \E idxes \in {SampleProportional(us)} :
            \E weights \in {Weights(idxes, beta)} :
                    IF \E k \in 1..Len(idxes) : idxes[k] >= Len(storage)
                    THEN ret' = RetI("sample", "IndexError", <<>>, idxes)
                    ELSE IF kind = "PrioritizedReplayBuffer"
                    THEN ret' = RetI("sample", "none",
                                     [rows |-> EncodeSample(idxes), weights |-> weights,
                                      idxes |-> idxes, us |-> us], idxes)
                    ELSE IF FirstRaise(idxes) # "none"
                    THEN ret' = RetI("sample", FirstRaise(idxes), <<>>, idxes)
                    ELSE ret' = RetI("sample", "none",
                                     [rows |-> EpisodicEncodeSample(idxes),
                                      weights |-> weights, idxes |-> idxes, us |-> us],
                                     idxes)
    /\ UNCHANGED <<paramVars, ringVars, treeVars, epiVars, histVars, nupdates>>

PrioSample(batch_size, beta) ==
    /\ PrioSampleCall(batch_size, beta)
    /\ UNCHANGED sideVars

\* sample, the caller keeping the indices it returned to feed priorities back
PrioSampleNoted(batch_size, beta) ==
    /\ PrioSampleCall(batch_size, beta)
    /\ sampled' = IF ret'.exc = "none" THEN [idxes |-> ret'.val.idxes, at |-> nadds]
                  ELSE sampled
    /\ UNCHANGED twin

(* -------------------------- update_priorities ------------------------- *)
\* the checks ahead of the tree writes: the exception raised, or "none"
UpdateRaisesNoIndexCheck(idxes, priorities, len) ==
    IF Len(idxes) # Len(priorities) THEN "AssertionError"
    ELSE IF Len(priorities) = 0 THEN "ValueError"
    ELSE IF \E k \in 1..Len(priorities) : ~RLess(Zero, priorities[k]) THEN "AssertionError"
    ELSE IF SeqMinInt(idxes) < 0 THEN "AssertionError"
    ELSE "none"
UpdateRaises(idxes, priorities, len) ==
    IF Len(idxes) # Len(priorities) THEN "AssertionError"
    ELSE IF Len(priorities) = 0 THEN "ValueError"
    ELSE IF ~RLess(Zero, CHOOSE m \in {priorities[k] : k \in 1..Len(priorities)} :
                             \A k \in 1..Len(priorities) : RLeq(m, priorities[k]))
         THEN "AssertionError"
    ELSE IF ~(SeqMinInt(idxes) >= 0) THEN "AssertionError"
    ELSE IF ~(SeqMaxInt(idxes) < len) THEN "AssertionError"
    ELSE "none"

\* priorities ** self._alpha
LeafValuesNoAlpha(priorities, a) == priorities
LeafValues(priorities, a) == [k \in 1..Len(priorities) |-> RPow(priorities[k], a)]

Decay == Rat(DecayNum, DecayDen)

\* max(self._max_priority, np.max(priorities))*0.95
DecayedMaxPerRow(mp, priorities) ==
    RMul(RMax(mp, SeqMax(priorities)), RPow(Decay, Len(priorities)))
DecayedMax(mp, priorities) == RMul(RMax(mp, SeqMax(priorities)), Decay)

\* history: the priorities of an accepted call, noted slot by slot
RECURSIVE AssignAll(_, _, _)
AssignAll(asg, idxes, priorities) ==
    IF Len(idxes) = 0 THEN asg
    ELSE AssignAll([asg EXCEPT ![idxes[1] + 1] = priorities[1]],
                   Tail(idxes), Tail(priorities))

\* self._it_sum[idxes] = values: one set per row, in order
WriteLeavesAccumulate(op, tree, idxes, values) ==
    TreeSetAll(op, tree, idxes,
               [k \in 1..Len(idxes) |-> RAdd(Leaf(tree, idxes[k]), values[k])])
WriteLeaves(op, tree, idxes, values) == TreeSetAll(op, tree, idxes, values)

\* update_priorities(idxes, priorities)
UpdatePrioritiesCall(idxes, priorities) ==
    /\ kind \in PriorityKinds
    /\ LET exc == UpdateRaises(idxes, priorities, Len(storage))
       IN  IF exc # "none"
           THEN /\ ret' = Ret("update_priorities", exc, <<>>)
                /\ UNCHANGED <<treeVars, nupdates, assigned>>
           ELSE /\ it_sum' = WriteLeaves("sum", it_sum, idxes, LeafValues(priorities, alpha))
                /\ it_min' = WriteLeaves("min", it_min, idxes, LeafValues(priorities, alpha))
                /\ max_priority' = DecayedMax(max_priority, priorities)
                /\ nupdates' = nupdates + 1
                /\ assigned' = AssignAll(assigned, idxes, priorities)
                /\ ret' = RetI("update_priorities", "none", priorities, idxes)
    /\ UNCHANGED <<paramVars, ringVars, epiVars, nadds, hist, evicted>>

\* update_priorities, accepted at most MaxUpdates times
UpdatePriorities(idxes, priorities) ==
    /\ UpdateRaises(idxes, priorities, Len(storage)) = "none" => nupdates < MaxUpdates
    /\ UpdatePrioritiesCall(idxes, priorities)
    /\ UNCHANGED sideVars

\* update_priorities called once more with the arguments of the accepted call
\* that was the latest operation
UpdatePrioritiesAgain ==
    /\ ret.op = "update_priorities"
    /\ ret.exc = "none"
    /\ nupdates <= MaxUpdates
    /\ UpdatePrioritiesCall(ret.idxes, ret.val)
    /\ UNCHANGED sideVars

(* ---------------------- two buffers side by side ---------------------- *)
\* a fresh PrioritizedReplayBuffer(size, alpha)
NewPrioritized(size) ==
    [storage |-> <<>>,
     next_idx |-> 0,
     it_sum |-> NewTree("sum", ItCapacity(size)),
     it_min |-> NewTree("min", ItCapacity(size)),
     max_priority |-> InitMaxPriority]

\* PrioritizedReplayBuffer.add on the second buffer, of the same capacity and
\* alpha
TwinAdd(reward, done) ==
    LET data == Data(ObsOf(nadds + 1), 0, reward, NxtObsOf(nadds + 1), done)
        idx == twin.next_idx
    IN  twin' =
            IF NextIdxRaises(maxsize)
            THEN [twin EXCEPT !.storage = StorageWrite(twin.storage, idx, data)]
            ELSE [storage |-> StorageWrite(twin.storage, idx, data),
                  next_idx |-> NextIdx(idx, maxsize),
                  it_sum |-> TreeSet("sum", twin.it_sum,
                                     LeafIdx(idx, NextIdx(idx, maxsize)),
                                     NewLeaf(twin.max_priority, alpha)),
                  it_min |-> TreeSet("min", twin.it_min,
                                     LeafIdx(idx, NextIdx(idx, maxsize)),
                                     NewLeaf(twin.max_priority, alpha)),
                  max_priority |-> twin.max_priority]

\* PrioritizedReplayBuffer.update_priorities on the second buffer
TwinUpdate(idxes, priorities) ==
    twin' =
        IF UpdateRaises(idxes, priorities, Len(twin.storage)) # "none" THEN twin
        ELSE [twin EXCEPT
                 !.it_sum = WriteLeaves("sum", @, idxes, LeafValues(priorities, alpha)),
                 !.it_min = WriteLeaves("min", @, idxes, LeafValues(priorities, alpha)),
                 !.max_priority = DecayedMax(@, priorities)]

\* one add call made on both buffers
BothAdd(reward, done, worker, terminal) ==
    /\ PrioEpiAddCall(reward, done, worker, terminal)
    /\ TwinAdd(reward, done)
    /\ UNCHANGED sampled

\* one update_priorities call made on both buffers
BothUpdate(idxes, priorities) ==
    /\ UpdateRaises(idxes, priorities, Len(storage)) = "none" => nupdates < MaxUpdates
    /\ UpdatePrioritiesCall(idxes, priorities)
    /\ TwinUpdate(idxes, priorities)
    /\ UNCHANGED sampled

(* ------------------------- the trees on their own --------------------- *)
\* set(index, value) on both trees of a priority buffer
SetLeaf(i, value) ==
    /\ kind \in PriorityKinds
    /\ it_sum' = TreeSet("sum", it_sum, i, value)
    /\ it_min' = TreeSet("min", it_min, i, value)
    /\ ret' = RetI("set", "none", value, <<i>>)
    /\ UNCHANGED <<paramVars, sideVars, ringVars, max_priority, epiVars, histVars, nupdates>>

\* find_prefix(mass) on the sum-tree, for 0 <= mass < total()
FindPrefixCall(mass) ==
    /\ kind \in PriorityKinds
    /\ RLeq(Zero, mass)
    /\ RLess(mass, Total(it_sum))
    /\ ret' = RetI("find_prefix", "none", mass, <<FindPrefix(it_sum, mass)>>)
    /\ UNCHANGED <<paramVars, sideVars, ringVars, treeVars, epiVars, histVars, nupdates>>

(* ---------------------------- specifications -------------------------- *)
\* the reward the caller passes with its k-th add
RewardOf(k) == k

\* every class, driven by add and can_sample
Init ==
    \E k \in AllKinds, size \in Capacities :
        InitBuffer(k, size, 1, 1, <<1, 2>>)

Next ==
    \/ \E r \in Rewards, d \in BOOLEAN : RingAdd(r, d)
    \/ \E r \in Rewards, d \in BOOLEAN : EffAdd(r, d)
    \/ \E r \in Rewards, d \in BOOLEAN : PrioAdd(r, d)
    \/ \E w \in Workers, t \in BOOLEAN : EpiAdd(RewardOf(nadds + 1), t, w, t)
    \/ \E w \in Workers, t \in BOOLEAN : PrioEpiAdd(RewardOf(nadds + 1), t, w, t)
    \/ \E n \in BatchSizes : CanSample(n)

Spec == Init /\ [][Next]_vars

\* the episodic buffer, driven by add and sample
InitEpisodic ==
    \E size \in Capacities, n \in 1..MaxNStep, g \in GammaInputs :
        InitBuffer("EpisodicReplayBuffer", size, 0, n, g)

NextEpisodic ==
    \/ \E w \in Workers, t \in BOOLEAN : EpiAdd(RewardOf(nadds + 1), t, w, t)
    \/ \E b \in BatchSizes : EpiSample(b)

SpecEpisodic == InitEpisodic /\ [][NextEpisodic]_vars

\* (worker, terminal) of the adds that drive the priority-episodic buffer
WorkerTerminal == {<<0, FALSE>>, <<WorkerSize - 1, TRUE>>}

\* the priorities a caller feeds back, as floats
Priorities == {Int2Rat(p) : p \in PriorityInputs}

\* update_priorities as the training loops call it: slots of the buffer, one
\* positive priority per slot
FeedbackCalls(len) ==
    UNION {[1..n -> 0..(len - 1)] \X [1..n -> Priorities \ {Zero}] :
               n \in BatchSizes \ {0}}

\* calls that probe the checks of update_priorities: arrays of equal length
\* with indices below, inside and past the buffer and priorities zero and
\* positive, and arrays of two different lengths whose entries are in range
ProbeCalls(len) ==
    UNION {[1..n -> {-1, 0, len}] \X [1..n -> {Zero, One}] : n \in BatchSizes}
    \cup {c \in SeqsOf({0}, BatchSizes) \X SeqsOf({One}, BatchSizes) :
               Len(c[1]) # Len(c[2])}

\* the two priority buffers, driven by add and update_priorities
InitPriority ==
    \E k \in PriorityKinds, size \in Capacities, a \in Alphas :
        InitBuffer(k, size, a, 1, <<1, 2>>)

NextPriority ==
    \/ PrioAdd(RewardOf(nadds + 1), FALSE)
    \/ \E wt \in WorkerTerminal : PrioEpiAdd(RewardOf(nadds + 1), wt[2], wt[1], wt[2])
    \/ \E call \in FeedbackCalls(Len(storage)) \cup ProbeCalls(Len(storage)) :
            UpdatePriorities(call[1], call[2])

SpecPriority == InitPriority /\ [][NextPriority]_vars

\* whether the k-th add is flagged terminal: one worker, episodes of two records
TerminalOf(k) == k % 2 = 0

\* the two priority buffers, driven by add, single-row update_priorities and
\* sample
InitSampling ==
    \E k \in PriorityKinds, size \in Capacities, a \in Alphas :
        InitBuffer(k, size, a, 1, <<1, 2>>)

NextSampling ==
    \/ PrioAdd(RewardOf(nadds + 1), FALSE)
    \/ PrioEpiAdd(RewardOf(nadds + 1), TerminalOf(nadds + 1), 0, TerminalOf(nadds + 1))
    \/ \E i \in 0..(Len(storage) - 1), p \in Priorities \ {Zero} :
            UpdatePriorities(<<i>>, <<p>>)
    \/ \E b \in BatchSizes, beta \in Betas : PrioSample(b, beta)

SpecSampling == InitSampling /\ [][NextSampling]_vars

\* the two priority buffers, driven by add and single-row update_priorities,
\* each accepted call possibly repeated at once
InitRepeat ==
    \E k \in PriorityKinds, size \in Capacities, a \in Alphas :
        InitBuffer(k, size, a, 1, <<1, 2>>)

NextRepeat ==
    \/ PrioAdd(RewardOf(nadds + 1), FALSE)
    \/ PrioEpiAdd(RewardOf(nadds + 1), TerminalOf(nadds + 1), 0, TerminalOf(nadds + 1))
    \/ \E i \in 0..(Len(storage) - 1), p \in Priorities \ {Zero} :
            UpdatePriorities(<<i>>, <<p>>)
    \/ UpdatePrioritiesAgain

SpecRepeat == InitRepeat /\ [][NextRepeat]_vars

\* every class, driven by add and sample
InitSample ==
    \E k \in AllKinds, size \in Capacities, n \in 1..MaxNStep :
        InitBuffer(k, size, 1, n, <<1, 2>>)

NextSample ==
    \/ RingAdd(RewardOf(nadds + 1), FALSE)
    \/ EffAdd(RewardOf(nadds + 1), FALSE)
    \/ PrioAdd(RewardOf(nadds + 1), FALSE)
    \/ \E w \in Workers, t \in BOOLEAN : EpiAdd(RewardOf(nadds + 1), t, w, t)
    \/ PrioEpiAdd(RewardOf(nadds + 1), TerminalOf(nadds + 1), 0, TerminalOf(nadds + 1))
    \/ \E b \in BatchSizes : RingSample(b)
    \/ \E b \in BatchSizes : EffSample(b)
    \/ \E b \in BatchSizes : EpiSample(b)
    \/ \E b \in BatchSizes, beta \in Betas : PrioSample(b, beta)

SpecSample == InitSample /\ [][NextSample]_vars

\* the masses tried on a sum-tree of the given total: the grid of draws and
\* the whole numbers below the total, which hit the subtree sums exactly
TreeMasses(total) ==
    {Mass(u, total) : u \in 0..(MassGrid - 1)}
    \cup {Int2Rat(n) : n \in {k \in 0..total[1] : RLess(Int2Rat(k), total)}}

\* the trees as the two priority buffers construct them, driven by set and
\* find_prefix
InitTree ==
    \E k \in PriorityKinds, size \in Capacities : InitBuffer(k, size, 1, 1, <<1, 2>>)

NextTree ==
    \/ \E i \in 0..(TreeCap(it_sum) - 1), value \in Priorities : SetLeaf(i, value)
    \/ \E mass \in TreeMasses(Total(it_sum)) : FindPrefixCall(mass)

SpecTree == InitTree /\ [][NextTree]_vars

\* a PrioritizedEpisodicReplayBuffer and a PrioritizedReplayBuffer of the same
\* capacity and alpha, driven by the same add and update_priorities calls; the
\* updates are single rows with an index inside or just past either end of
\* the buffer and a priority zero or positive
InitTwin ==
    \E size \in Capacities, a \in Alphas :
        /\ InitFields("PrioritizedEpisodicReplayBuffer", size, a, 1, <<1, 2>>)
        /\ twin = NewPrioritized(size)
        /\ sampled = NoSample

NextTwin ==
    \/ \E wt \in WorkerTerminal : BothAdd(RewardOf(nadds + 1), wt[2], wt[1], wt[2])
    \/ \E i \in -1..Len(storage), p \in Priorities : BothUpdate(<<i>>, <<p>>)

SpecTwin == InitTwin /\ [][NextTwin]_vars

\* the two priority buffers in a training loop: add, sample, and priorities
\* fed back, one row at a time, for indices the latest sample returned
InitStale ==
    \E k \in PriorityKinds, size \in Capacities :
        InitBuffer(k, size, 1, 1, <<1, 2>>)

NextStale ==
    \/ PrioAdd(RewardOf(nadds + 1), FALSE)
    \/ PrioEpiAdd(RewardOf(nadds + 1), TerminalOf(nadds + 1), 0, TerminalOf(nadds + 1))
    \/ \E b \in BatchSizes : PrioSampleNoted(b, 1)
    \/ \E k \in 1..Len(sampled.idxes), p \in Priorities \ {Zero} :
            UpdatePriorities(<<sampled.idxes[k]>>, <<p>>)

SpecStale == InitStale /\ [][NextStale]_vars

\* every class, driven by add and by its two read operations
NextReadOnly ==
    \/ RingAdd(RewardOf(nadds + 1), FALSE)
    \/ EffAdd(RewardOf(nadds + 1), FALSE)
    \/ PrioAdd(RewardOf(nadds + 1), FALSE)
    \/ \E wt \in WorkerTerminal : EpiAdd(RewardOf(nadds + 1), wt[2], wt[1], wt[2])
    \/ PrioEpiAdd(RewardOf(nadds + 1), TerminalOf(nadds + 1), 0, TerminalOf(nadds + 1))
    \/ \E b \in BatchSizes : RingSample(b)
    \/ \E b \in BatchSizes : EffSample(b)
    \/ \E b \in BatchSizes : EpiSample(b)
    \/ \E b \in BatchSizes, beta \in Betas : PrioSample(b, beta)
    \/ \E n \in BatchSizes : CanSample(n)

SpecReadOnly == InitSample /\ [][NextReadOnly]_vars

\* the two priority buffers built with every capacity up to MaxSizing, driven
\* by add
InitSizing ==
    \E k \in PriorityKinds, size \in 1..MaxSizing :
        InitBuffer(k, size, 1, 1, <<1, 2>>)

NextSizing ==
    \/ PrioAdd(RewardOf(nadds + 1), FALSE)
    \/ PrioEpiAdd(RewardOf(nadds + 1), TerminalOf(nadds + 1), 0, TerminalOf(nadds + 1))

SpecSizing == InitSizing /\ [][NextSizing]_vars

\* capacities a caller may pass that are not positive
NonPositiveCapacities == {-1, 0}

\* np.zeros rejects a negative dimension: the only constructor that raises
ConstructRaises(k, size) == k = "EfficentReplayBuffer" /\ size < 0

\* every class built with a capacity of -1, 0 or 1, driven by add; a
\* constructor that raises leaves no buffer
InitCapacity ==
    \E k \in AllKinds, size \in NonPositiveCapacities \cup {1} :
        /\ ~ConstructRaises(k, size)
        /\ InitBuffer(k, size, 1, 1, <<1, 2>>)

NextCapacity ==
    \/ \E r \in Rewards, d \in BOOLEAN : RingAdd(r, d)
    \/ \E r \in Rewards, d \in BOOLEAN : EffAdd(r, d)
    \/ \E r \in Rewards, d \in BOOLEAN : PrioAdd(r, d)
    \/ \E w \in Workers, t \in BOOLEAN : EpiAdd(RewardOf(nadds + 1), t, w, t)
    \/ \E w \in Workers, t \in BOOLEAN : PrioEpiAdd(RewardOf(nadds + 1), t, w, t)

SpecCapacity == InitCapacity /\ [][NextCapacity]_vars

(* =============================== claims =============================== *)

(* C1: for every capacity C >= 1, after k add calls on a fresh buffer of any
   of the five classes the logical length is min(k, C): one more per add up to
   C, and never more than C. *)
C1_LengthIsMinOfAddsAndCapacity ==
    maxsize >= 1 =>
        /\ Length = Min2(nadds, maxsize)
        /\ ret.op = "add" => ret.exc = "none"

C1_Witness ==
    /\ kind = "EfficentReplayBuffer"
    /\ maxsize = 2
    /\ nadds = 3
    /\ Length = 2

(* C2: after k adds on a buffer of capacity C the cursor is k mod C, the slots
   hold exactly the last min(k, C) added records, the j-th added record (j
   counted from 0) in slot j mod C, and the record an add overwrote is the
   oldest one that was still stored. *)
C2_CursorAndSlots ==
    maxsize >= 1 =>
        /\ next_idx = nadds % maxsize
        /\ Len(hist) = nadds
        /\ \A j \in 0..(nadds - 1) :
               j >= nadds - Min2(nadds, maxsize) => Slot(j % maxsize) = hist[j + 1]
        /\ ret.op = "add" =>
               evicted = IF nadds > maxsize THEN <<hist[nadds - maxsize]>> ELSE <<>>

C2_Witness ==
    /\ kind = "EpisodicReplayBuffer"
    /\ maxsize = 2
    /\ nadds = 3
    /\ ret.op = "add"
    /\ evicted = <<hist[1]>>
    /\ Slot(0) = hist[3]
    /\ Slot(1) = hist[2]

\* the rewards of the records ever added to the episode of key, in order
RECURSIVE EpisodeRewards(_, _)
EpisodeRewards(h, key) ==
    IF Len(h) = 0 THEN <<>>
    ELSE IF h[1].ep[1] = key THEN <<h[1].reward>> \o EpisodeRewards(Tail(h), key)
    ELSE EpisodeRewards(Tail(h), key)

\* how many of the first n records of h belong to the episode of key
EpisodePosition(h, key, n) == Cardinality({j \in 1..n : h[j].ep[1] = key})

\* sum over k = 0..m-1 of g^k * rewards[p + k]
RECURSIVE Discounted(_, _, _, _)
Discounted(rewards, p, m, g) ==
    IF m = 0 THEN Zero
    ELSE RAdd(Int2Rat(rewards[p]), RMul(g, Discounted(rewards, p + 1, m - 1, g)))

\* the n-step return of the added record number obs, folding at most n records
NStepReturn(obs, n) ==
    LET key == hist[obs].ep[1]
        rewards == EpisodeRewards(hist, key)
        p == EpisodePosition(hist, key, obs)
    IN  Discounted(rewards, p, Min2(n, Len(rewards) - p + 1), gamma)

(* C3: in the episodic buffer, the reward returned for a sampled slot at
   position p of its episode is the sum over k = 0..m-1 of gamma^k times the
   reward of the episode's record at position p+k, with m = min(n_step, number
   of records of the episode from p onward): at most n_step records, the
   sampled one included, are folded. *)
C3_FoldsAtMostNStepRecords ==
    (ret.op = "sample" /\ ret.exc = "none") =>
        \A k \in 1..Len(ret.idxes) :
            ret.val[k].reward = NStepReturn(Slot(ret.idxes[k]).obs, n_step)

(* C4: in the episodic buffer, when an add overwrites a slot whose record was
   flagged terminal, the add completes and the episode key of the overwritten
   record is absent from the episode index afterwards, whichever workers
   interleave and whatever the capacity. *)
C4_TerminalOverwriteDropsEpisode ==
    ret.op = "add" =>
        /\ ret.exc = "none"
        /\ (evicted # <<>> /\ evicted[1].terminal) =>
               evicted[1].ep[1] \notin DOMAIN episodes

C4_Witness ==
    /\ ret.op = "add"
    /\ ret.exc = "none"
    /\ maxsize = 2
    /\ evicted # <<>>
    /\ evicted[1].terminal
    /\ evicted[1].ep[1][1] # hist[nadds].ep[1][1]
    /\ Cardinality(DOMAIN episodes) = 1

\* the leaves of a tree, by slot index
Leaves(tree) == [i \in 0..(TreeCap(tree) - 1) |-> Leaf(tree, i)]

(* C5: in both priority buffers an add that writes slot i, the cursor before
   the add, sets leaf i of the sum-tree and of the min-tree to
   max_priority^alpha, with max_priority as it is at the time of the add, and
   changes no other leaf of either tree. *)
C5_AddSetsTheLeavesOfTheWrittenSlot ==
    [][(ret'.op = "add" /\ kind \in PriorityKinds) =>
          /\ ret'.exc = "none"
          /\ storage'[next_idx + 1] = hist'[nadds']
          /\ \A j \in 0..(TreeCap(it_sum) - 1) :
                /\ Leaf(it_sum', j) = IF j = next_idx THEN RPow(max_priority, alpha)
                                      ELSE Leaf(it_sum, j)
                /\ Leaf(it_min', j) = IF j = next_idx THEN RPow(max_priority, alpha)
                                      ELSE Leaf(it_min, j)]_vars

C5_Witness ==
    /\ ret.op = "add"
    /\ kind = "PrioritizedEpisodicReplayBuffer"
    /\ alpha = 2
    /\ nadds > maxsize
    /\ nupdates >= 1
    /\ max_priority = <<57, 20>>
    /\ Leaf(it_sum, (next_idx + maxsize - 1) % maxsize) = <<3249, 400>>
    /\ Leaf(it_min, (next_idx + maxsize - 1) % maxsize) = <<3249, 400>>

\* sum over the first len slots of (the priority last given to the slot)^alpha
RECURSIVE SumAssigned(_)
SumAssigned(len) ==
    IF len = 0 THEN Zero ELSE RAdd(SumAssigned(len - 1), RPow(assigned[len], alpha))

(* C6: in a priority buffer, after any sequence of add and update_priorities
   calls, total() is the sum over the occupied slots of priority^alpha of the
   priority last given to the record now in the slot: an overwriting add
   replaces the slot's leaf instead of adding to it. *)
C6_TotalIsTheSumOverOccupiedSlots ==
    kind \in PriorityKinds =>
        /\ Total(it_sum) = SumAssigned(Len(storage))
        /\ \A i \in 0..(Len(storage) - 1) :
               Leaf(it_sum, i) = RPow(assigned[i + 1], alpha)

C6_Witness ==
    /\ kind = "PrioritizedReplayBuffer"
    /\ alpha = 1
    /\ maxsize = 2
    /\ nadds = 3
    /\ nupdates = 1
    /\ ret.op = "add"
    /\ Leaves(it_sum) = [i \in 0..1 |-> IF i = 0 THEN <<57, 20>> ELSE <<3, 1>>]
    /\ Total(it_sum) = <<117, 20>>

\* the sum of the sum-tree leaves 0..i
RECURSIVE PrefixSum(_)
PrefixSum(i) == IF i < 0 THEN Zero ELSE RAdd(PrefixSum(i - 1), Leaf(it_sum, i))

(* C7: in a priority buffer of length L >= 1 the mass of a draw ranges over
   [0, sum of the leaves of the occupied slots 0..L-1): every index returned
   is in [0, L), and the index returned for a mass is the slot i whose
   interval [prefix(i-1), prefix(i)), of width leaf_i, holds the mass, the
   last slot L-1 included. *)
C7_DrawsAreProportionalOverOccupiedSlots ==
    (ret.op = "sample" /\ Len(storage) >= 1) =>
        /\ ret.exc \in {"none", "AssertionError"}
        /\ ret.exc = "none" =>
               \A k \in 1..Len(ret.val.idxes) :
                   LET i == ret.val.idxes[k]
                       mass == RMul(Rat(ret.val.us[k], MassGrid),
                                    PrefixSum(Len(storage) - 1))
                   IN  /\ i \in 0..(Len(storage) - 1)
                       /\ RLeq(PrefixSum(i - 1), mass)
                       /\ RLess(mass, PrefixSum(i))

C7_Witness ==
    /\ ret.op = "sample"
    /\ ret.exc = "none"
    /\ Len(storage) = 2
    /\ nupdates >= 1
    /\ Leaf(it_sum, 0) # Leaf(it_sum, 1)
    /\ ret.val.idxes = <<1, 0>>

(* C8: an accepted update_priorities(indices, priorities) sets the sum-tree
   and min-tree leaf of each given index to priority^alpha (the last priority
   given for an index that occurs twice) and, max_priority apart, changes
   nothing else: the other leaves, the records, the cursor, the length, the
   episode index and the episode counters stay as they were. *)
C8_UpdateChangesOnlyTheGivenLeaves ==
    [][(ret'.op = "update_priorities" /\ ret'.exc = "none") =>
          /\ \A j \in 0..(TreeCap(it_sum) - 1) :
                LET ks == {k \in 1..Len(ret'.idxes) : ret'.idxes[k] = j}
                    last == CHOOSE k \in ks : \A l \in ks : l <= k
                IN  IF ks = {}
                    THEN /\ Leaf(it_sum', j) = Leaf(it_sum, j)
                         /\ Leaf(it_min', j) = Leaf(it_min, j)
                    ELSE /\ Leaf(it_sum', j) = RPow(ret'.val[last], alpha)
                         /\ Leaf(it_min', j) = RPow(ret'.val[last], alpha)
          /\ UNCHANGED <<storage, next_idx, storage_size, episodes, worker_ep,
                         kind, maxsize, alpha, n_step, gamma>>]_vars

C8_Witness ==
    /\ ret.op = "update_priorities"
    /\ ret.exc = "none"
    /\ kind = "PrioritizedEpisodicReplayBuffer"
    /\ alpha = 2
    /\ ret.idxes = <<1, 1>>
    /\ ret.val = <<One, <<3, 1>>>>
    /\ Leaf(it_sum, 1) = <<9, 1>>
    /\ Cardinality(DOMAIN episodes) = 2

(* C9: every accepted update_priorities call sets max_priority to
   max(old max_priority, max(priorities)) * 0.95, once per call whatever the
   batch size, and add never changes max_priority. *)
C9_MaxPriorityDecaysOncePerCall ==
    [][/\ (ret'.op = "update_priorities" /\ ret'.exc = "none") =>
             max_priority' = RMul(RMax(max_priority, SeqMax(ret'.val)), <<19, 20>>)
       /\ (ret'.op = "add" /\ kind \in PriorityKinds) =>
             max_priority' = max_priority]_vars

C9_Witness ==
    /\ ret.op = "update_priorities"
    /\ ret.exc = "none"
    /\ ret.val = <<One, <<3, 1>>>>
    /\ nupdates = 1
    /\ max_priority = <<57, 20>>

\* the precondition of update_priorities
ValidCall(idxes, priorities, len) ==
    /\ Len(idxes) = Len(priorities)
    /\ \A k \in 1..Len(priorities) : RLess(Zero, priorities[k])
    /\ \A k \in 1..Len(idxes) : idxes[k] \in 0..(len - 1)

(* C10: update_priorities called with arrays of different lengths, with a
   priority <= 0 or with an index outside [0, length) raises before any leaf
   or max_priority is written: only calls that meet the precondition are
   accepted, and a call that raises leaves the whole buffer as it was. *)
C10_RejectedUpdateLeavesTheBufferUnchanged ==
    [][ret'.op = "update_priorities" =>
          IF ret'.exc = "none"
          THEN ValidCall(ret'.idxes, ret'.val, Len(storage))
          ELSE UNCHANGED <<storage, next_idx, storage_size, it_sum, it_min,
                           max_priority, episodes, worker_ep, kind, maxsize,
                           alpha, n_step, gamma>>]_vars

C10_Witness ==
    /\ ret.op = "update_priorities"
    /\ ret.exc = "AssertionError"
    /\ Len(storage) = 2
    /\ nupdates = 1
    /\ max_priority = <<57, 20>>

\* whether slot i holds the smallest priority^alpha of the occupied slots
HoldsMinimum(i) ==
    \A j \in 0..(Len(storage) - 1) : RLeq(Leaf(it_sum, i), Leaf(it_sum, j))

(* C11: for every priority sample on a non-empty buffer with beta > 0, each
   returned importance weight lies in (0, 1], and the weight of a sampled slot
   is 1 when that slot holds the smallest priority^alpha of the occupied
   slots. *)
C11_WeightsLieInUnitInterval ==
    (ret.op = "sample" /\ ret.exc = "none" /\ Len(storage) >= 1) =>
        /\ Len(ret.val.weights) = Len(ret.val.idxes)
        /\ \A k \in 1..Len(ret.val.idxes) :
               /\ RLess(Zero, ret.val.weights[k])
               /\ RLeq(ret.val.weights[k], One)
               /\ HoldsMinimum(ret.val.idxes[k]) => ret.val.weights[k] = One

C11_Witness ==
    /\ ret.op = "sample"
    /\ ret.exc = "none"
    /\ kind = "PrioritizedEpisodicReplayBuffer"
    /\ ret.val.idxes = <<1, 0>>
    /\ ret.val.weights = <<<<1, 3>>, One>>

(* C12 as stated: the weights returned by every priority sample call contain
   at least one entry equal to 1 (read here for batches of at least one row
   drawn from a non-empty buffer). *)
C12_SomeWeightIsOne ==
    (ret.op = "sample" /\ ret.exc = "none" /\ Len(ret.val.idxes) >= 1) =>
        \E k \in 1..Len(ret.val.weights) : ret.val.weights[k] = One

(* C12 amended: the weights returned by a priority sample call contain an
   entry equal to 1 whenever the batch includes a slot that holds the smallest
   priority^alpha of the occupied slots; a batch without such a slot, or an
   empty batch, need not contain one. *)
C12_SomeWeightIsOneWhenMinimumIsDrawn ==
    (ret.op = "sample" /\ ret.exc = "none") =>
        ((\E k \in 1..Len(ret.val.idxes) : HoldsMinimum(ret.val.idxes[k]))
            => \E k \in 1..Len(ret.val.weights) : ret.val.weights[k] = One)

C12_Witness ==
    /\ ret.op = "sample"
    /\ ret.exc = "none"
    /\ kind = "PrioritizedReplayBuffer"
    /\ alpha = 2
    /\ ret.val.idxes = <<0, 1>>
    /\ ret.val.weights = <<One, <<1, 9>>>>

\* the records ever added to the episode of key, in order
RECURSIVE EpisodeRecords(_, _)
EpisodeRecords(h, key) ==
    IF Len(h) = 0 THEN <<>>
    ELSE IF h[1].ep[1] = key THEN <<h[1]>> \o EpisodeRecords(Tail(h), key)
    ELSE EpisodeRecords(Tail(h), key)

(* C13: in the episodic buffer, the next_observation and done returned for a
   sampled slot are those of the last record whose reward was folded into the
   returned reward: with m the number of the episode's records, from the
   sampled one at position p onward, whose discounted rewards make up the
   returned reward, they are those of the record at position p + m - 1, and
   those of the sampled record itself only when m = 1. *)
C13_NextObsAndDoneOfTheLastFoldedRecord ==
    (ret.op = "sample" /\ ret.exc = "none") =>
        \A k \in 1..Len(ret.idxes) :
            LET own == Slot(ret.idxes[k])
                key == own.ep[1]
                recs == EpisodeRecords(hist, key)
                rewards == EpisodeRewards(hist, key)
                p == EpisodePosition(hist, key, own.obs)
            IN  /\ ret.val[k].obs = own.obs
                /\ \E m \in 1..(Len(recs) - p + 1) :
                       /\ ret.val[k].reward = Discounted(rewards, p, m, gamma)
                       /\ ret.val[k].nxtobs = recs[p + m - 1].nxtobs
                       /\ ret.val[k].done = recs[p + m - 1].done
                       /\ ret.val[k].nxtobs = own.nxtobs => m = 1

C13_Witness ==
    /\ ret.op = "sample"
    /\ ret.exc = "none"
    /\ ret.idxes = <<0>>
    /\ Slot(0).terminal = FALSE
    /\ ret.val[1].obs = 1
    /\ ret.val[1].reward = <<2, 1>>
    /\ ret.val[1].nxtobs = 3
    /\ ret.val[1].done = TRUE

(* C14: in the episodic buffer, sampling a slot that has fewer than n_step
   records left in its episode raises no error and folds only the records
   that exist; sampling the last record of an episode returns exactly that
   record's own reward, next_observation and done. *)
C14_ShortHorizonAtEpisodeBoundary ==
    (ret.op = "sample" /\ Len(storage) >= 1) =>
        /\ ret.exc = "none"
        /\ \A k \in 1..Len(ret.idxes) :
               LET own == Slot(ret.idxes[k])
                   key == own.ep[1]
                   rewards == EpisodeRewards(hist, key)
                   p == EpisodePosition(hist, key, own.obs)
                   left == Len(rewards) - p + 1
               IN  /\ left < n_step =>
                          ret.val[k].reward = Discounted(rewards, p, left, gamma)
                   /\ left = 1 =>
                          /\ ret.val[k].reward = Int2Rat(own.reward)
                          /\ ret.val[k].nxtobs = own.nxtobs
                          /\ ret.val[k].done = own.done

C14_Witness ==
    /\ ret.op = "sample"
    /\ ret.exc = "none"
    /\ n_step = 2
    /\ ret.idxes = <<1>>
    /\ Slot(1).terminal
    /\ Slot(1).ep[2] = 2
    /\ ret.val[1].reward = Int2Rat(Slot(1).reward)
    /\ ret.val[1].nxtobs = Slot(1).nxtobs

(* C15: an episodic add for worker w files the written slot index under the
   key (w, counter[w]), the counter as read before the write, appending it to
   that key's list (created if absent); counter[w] goes up by exactly 1 when
   terminal is true and is unchanged otherwise, and the counters of all other
   workers are unchanged. *)
C15_AddFilesTheSlotUnderTheCurrentEpisode ==
    [][(ret'.op = "add" /\ kind \in EpisodicKinds) =>
          LET rec == hist'[nadds']
              key == rec.ep[1]
              w == key[1]
          IN  /\ ret'.exc = "none"
              /\ storage'[next_idx + 1] = rec
              /\ key = <<w, worker_ep[w]>>
              /\ key \in DOMAIN episodes'
              /\ episodes'[key] = IF key \in DOMAIN episodes
                                  THEN Append(episodes[key], next_idx)
                                  ELSE <<next_idx>>
              /\ rec.ep[2] = Len(episodes'[key])
              /\ worker_ep'[w] = IF rec.terminal THEN worker_ep[w] + 1
                                  ELSE worker_ep[w]
              /\ \A v \in Workers \ {w} : worker_ep'[v] = worker_ep[v]]_vars

C15_Witness ==
    /\ ret.op = "add"
    /\ kind = "EpisodicReplayBuffer"
    /\ maxsize = 2
    /\ nadds = 3
    /\ hist[3].terminal
    /\ hist[3].ep = <<<<0, 0>>, 2>>
    /\ episodes[<<0, 0>>] = <<0, 0>>
    /\ worker_ep = [v \in Workers |-> 1]

(* C16: calling update_priorities([i], [p]) a second time with the same
   arguments, with no other operation in between, leaves the sum-tree and the
   min-tree exactly as they were after the first call. *)
C16_RepeatedUpdateLeavesTheTreesUnchanged ==
    [][(/\ ret.op = "update_priorities" /\ ret.exc = "none"
        /\ ret'.op = "update_priorities"
        /\ ret'.idxes = ret.idxes /\ ret'.val = ret.val
        /\ nupdates' = nupdates + 1)
          => /\ ret'.exc = "none"
             /\ it_sum' = it_sum
             /\ it_min' = it_min]_vars

C16_Witness ==
    /\ ret.op = "update_priorities"
    /\ ret.exc = "none"
    /\ nupdates = MaxUpdates + 1
    /\ alpha = 2
    /\ Len(storage) = 2
    /\ ret.idxes = <<1>>
    /\ ret.val = <<<<3, 1>>>>
    /\ Leaves(it_sum) = [i \in 0..1 |-> IF i = 0 THEN One ELSE <<9, 1>>]
    /\ Leaves(it_min) = Leaves(it_sum)
    /\ max_priority = <<57, 20>>

\* the sum and the minimum of the leaves 0..i of a tree, leaf by leaf
RECURSIVE SumOfLeaves(_, _)
SumOfLeaves(tree, i) ==
    IF i < 0 THEN Zero ELSE RAdd(SumOfLeaves(tree, i - 1), Leaf(tree, i))

RECURSIVE MinOfLeaves(_, _)
MinOfLeaves(tree, i) ==
    IF i < 0 THEN Inf ELSE RMin(MinOfLeaves(tree, i - 1), Leaf(tree, i))

(* C17: for the trees of the priority buffers, after every set in any sequence
   of set operations, total() equals the sum of all leaves of the sum-tree and
   minimum() equals the smallest leaf of the min-tree. *)
C17_RootsAggregateAllLeaves ==
    kind \in PriorityKinds =>
        /\ Total(it_sum) = SumOfLeaves(it_sum, TreeCap(it_sum) - 1)
        /\ Minimum(it_min) = MinOfLeaves(it_min, TreeCap(it_min) - 1)

C17_Witness ==
    /\ ret.op = "set"
    /\ ret.idxes = <<0>>
    /\ TreeCap(it_sum) = 2
    /\ Leaves(it_sum) = [i \in 0..1 |-> IF i = 0 THEN <<3, 1>> ELSE One]
    /\ Total(it_sum) = <<4, 1>>
    /\ Leaves(it_min) = Leaves(it_sum)
    /\ Minimum(it_min) = One

(* C18: for every sum-tree state with total() > 0 and every mass with
   0 <= mass < total(), find_prefix(mass) returns a leaf index i inside the
   leaf range with prefix_sum(0..i-1) <= mass < prefix_sum(0..i); the left
   subtree is taken only when mass is strictly less than its sum. *)
C18_FindPrefixInvertsThePrefixSums ==
    ret.op = "find_prefix" =>
        LET i == ret.idxes[1]
            mass == ret.val
        IN  /\ i \in 0..(TreeCap(it_sum) - 1)
            /\ RLeq(SumOfLeaves(it_sum, i - 1), mass)
            /\ RLess(mass, SumOfLeaves(it_sum, i))
            /\ TreeCap(it_sum) >= 2 =>
                   (i < TreeCap(it_sum) \div 2 <=> RLess(mass, it_sum[2]))

C18_Witness ==
    /\ ret.op = "find_prefix"
    /\ Leaves(it_sum) = [i \in 0..1 |-> IF i = 0 THEN One ELSE <<3, 1>>]
    /\ ret.val = One
    /\ ret.idxes = <<1>>

(* C19: on a uniform or episodic buffer with length L >= 1, sample(batch_size)
   uses only slot indices in [0, L), every index of [0, L) can be drawn, and
   the same index may be drawn more than once in one batch. *)
C19_UniformDrawsCoverTheOccupiedSlots ==
    (kind \in {"ReplayBuffer", "EpisodicReplayBuffer"} /\ Len(storage) >= 1) =>
        /\ ret.op = "sample" =>
               /\ ret.exc = "none"
               /\ Len(ret.val) = Len(ret.idxes)
               /\ \A k \in 1..Len(ret.idxes) : ret.idxes[k] \in 0..(Len(storage) - 1)
        /\ \A i \in 0..(Len(storage) - 1) :
               /\ <<i>> \in RandIntRows(0, Len(storage) - 1, 1)
               /\ <<i, i>> \in RandIntRows(0, Len(storage) - 1, 2)
        /\ \A b \in BatchSizes :
               RandIntRows(0, Len(storage) - 1, b) \subseteq [1..b -> 0..(Len(storage) - 1)]

C19_Witness ==
    /\ kind = "ReplayBuffer"
    /\ Len(storage) = 2
    /\ ret.op = "sample"
    /\ ret.exc = "none"
    /\ ret.idxes = <<1, 1>>
    /\ ret.val[1] = ret.val[2]
    /\ ret.val[1].obs = Slot(1).obs

(* C20: sample called on a buffer whose length is 0 fails with an error for
   every batch_size and every class of buffer, returns no batch and leaves the
   buffer as it was. *)
C20_SampleOnAnEmptyBufferFails ==
    [][(ret'.op = "sample" /\ Length = 0) =>
          /\ ret'.exc # "none"
          /\ ret'.val = <<>>
          /\ UNCHANGED <<storage, next_idx, storage_size, it_sum, it_min,
                         max_priority, episodes, worker_ep, kind, maxsize,
                         alpha, n_step, gamma>>]_vars

(* C21: a priority sample called with beta <= 0, the default beta of a call
   without the argument included, fails with an error before any index is
   drawn and leaves the trees, max_priority, storage and cursor unchanged. *)
C21_SampleRejectsNonPositiveBeta ==
    [][\A b \in BatchSizes, beta \in {x \in Betas \cup {DefaultBeta} : x <= 0} :
          PrioSample(b, beta) =>
              /\ ret'.exc = "AssertionError"
              /\ ret'.val = <<>>
              /\ ret'.idxes = <<>>
              /\ UNCHANGED <<it_sum, it_min, max_priority, storage, next_idx,
                             storage_size, episodes, worker_ep>>]_vars

C21_Witness ==
    /\ ret.op = "sample"
    /\ ret.exc = "AssertionError"
    /\ kind = "PrioritizedEpisodicReplayBuffer"
    /\ Len(storage) = 2
    /\ nupdates = 1
    /\ Leaf(it_sum, 0) # Leaf(it_sum, 1)

(* C22 as stated: every add returns the index of the slot it wrote, i.e. the
   value the cursor had immediately before the call. *)
C22_AddReturnsTheWrittenIndex ==
    [][(ret'.op = "add" /\ ret'.exc = "none") => ret'.val = <<next_idx>>]_vars

(* C22 amended: every add writes the slot the cursor pointed to immediately
   before the call and returns nothing (None); the priority buffers key their
   tree writes by reading the cursor themselves before the write. *)
C22_AddReturnsNothing ==
    [][(ret'.op = "add" /\ ret'.exc = "none") =>
          /\ ret'.val = None
          /\ storage'[next_idx + 1].obs = ObsOf(nadds')
          /\ kind \in PriorityKinds =>
                 Leaf(it_sum', next_idx) = RPow(max_priority, alpha)]_vars

C22_Witness ==
    /\ ret.op = "add"
    /\ ret.exc = "none"
    /\ ret.val = None
    /\ kind = "PrioritizedReplayBuffer"
    /\ maxsize = 2
    /\ nadds = 3
    /\ next_idx = 1
    /\ Slot(0).obs = ObsOf(3)

(* C23: constructing any buffer with a capacity <= 0 fails at construction, so
   no buffer of capacity <= 0 exists and no add runs against one. *)
C23_NoBufferOfNonPositiveCapacity ==
    /\ maxsize >= 1
    /\ ret.op = "add" => maxsize >= 1

(* C24: run side by side with the same capacity, alpha and sequence of add and
   update_priorities calls, the PrioritizedEpisodicReplayBuffer and the
   PrioritizedReplayBuffer have the same sum-tree leaves, min-tree leaves,
   max_priority, cursor and length after every call. *)
C24_EpisodicAndPlainPriorityBuffersAgree ==
    twin # NoTwin =>
        /\ TreeCap(it_sum) = TreeCap(twin.it_sum)
        /\ TreeCap(it_min) = TreeCap(twin.it_min)
        /\ \A i \in 0..(TreeCap(it_sum) - 1) :
               /\ Leaf(it_sum, i) = Leaf(twin.it_sum, i)
               /\ Leaf(it_min, i) = Leaf(twin.it_min, i)
        /\ max_priority = twin.max_priority
        /\ next_idx = twin.next_idx
        /\ Len(storage) = Len(twin.storage)

C24_Witness ==
    /\ twin # NoTwin
    /\ maxsize = 2
    /\ nadds = 3
    /\ nupdates = 1
    /\ ret.op = "add"
    /\ evicted # <<>>
    /\ evicted[1].terminal
    /\ Len(twin.storage) = 2
    /\ Leaf(twin.it_sum, 0) # Leaf(twin.it_sum, 1)
    /\ Leaf(it_sum, 0) # Leaf(it_sum, 1)

\* the slot indices the n-step fold reads when slot i is sampled
FoldReads(i) == NStepIdxs(episodes[Slot(i).ep[1]], Slot(i).ep[2], n_step)

(* C25: in the episodic buffers, after any adds by any interleaving of
   workers, every slot index the n-step fold reads for an occupied slot holds
   a record of the sampled record's episode, at the consecutive later
   positions of that episode: never a record of another episode or an evicted
   position. *)
C25_FoldReadsTheFollowingRecordsOfTheEpisode ==
    kind \in EpisodicKinds =>
        \A i \in 0..(Len(storage) - 1) :
            Slot(i).ep[1] \in DOMAIN episodes =>
                \A k \in 1..Len(FoldReads(i)) :
                    /\ FoldReads(i)[k] \in 0..(Len(storage) - 1)
                    /\ Slot(FoldReads(i)[k]).ep[1] = Slot(i).ep[1]
                    /\ Slot(FoldReads(i)[k]).ep[2] = Slot(i).ep[2] + k

C25_Witness ==
    /\ kind = "EpisodicReplayBuffer"
    /\ maxsize = 2
    /\ n_step = 2
    /\ nadds = 3
    /\ Slot(0).ep = <<<<0, 0>>, 3>>
    /\ Slot(1).ep = <<<<0, 0>>, 2>>
    /\ episodes[<<0, 0>>] = <<0, 1, 0>>
    /\ FoldReads(1) = <<0>>

(* C26: in the episodic buffers, after any adds, the episode key stored in
   every occupied slot is present in the episode index, so the lookup of a
   sampled slot's episode never fails, although add appends the new slot to
   the index before it deletes the entry of an overwritten terminal record. *)
C26_StoredEpisodeKeysAreIndexed ==
    kind \in EpisodicKinds =>
        /\ \A i \in 0..(Len(storage) - 1) : Slot(i).ep[1] \in DOMAIN episodes
        /\ ret.op = "add" => ret.exc # "KeyError"
        /\ ret.op = "sample" => ret.exc # "KeyError"

C26_Witness ==
    /\ kind = "EpisodicReplayBuffer"
    /\ maxsize = 2
    /\ nadds = 3
    /\ ret.op = "sample"
    /\ ret.exc = "none"
    /\ ret.idxes = <<0, 1>>
    /\ evicted # <<>>
    /\ evicted[1].terminal
    /\ evicted[1].ep[1] \notin DOMAIN episodes
    /\ Slot(0).ep[1] # Slot(1).ep[1]
    /\ Slot(0).ep[1][1] = evicted[1].ep[1][1]

(* C27: in the episodic buffers, after any adds, no entry of the episode index
   references an evicted slot: for every key of the index and every slot
   index in its list, the record now stored in that slot belongs to that
   episode. *)
C27_IndexEntriesReferenceRecordsOfTheirEpisode ==
    kind \in EpisodicKinds =>
        \A key \in DOMAIN episodes :
            \A j \in 1..Len(episodes[key]) :
                /\ episodes[key][j] \in 0..(Len(storage) - 1)
                /\ Slot(episodes[key][j]).ep[1] = key

\* slot i was returned by the noted sample and an add has overwritten it since:
\* the k-th add stores observation ObsOf(k)
Stale(i) ==
    /\ \E k \in 1..Len(sampled.idxes) : sampled.idxes[k] = i
    /\ i < Len(storage)
    /\ Slot(i).obs > ObsOf(sampled.at)

(* C28: if sample returns index i and an add then overwrites slot i before
   update_priorities([i], [p]) is called, the update is accepted without error
   and sets the leaf of the record now stored in slot i: no stale index is
   rejected. *)
C28_StaleIndexUpdateIsAccepted ==
    [][\A i \in 0..(MaxCap - 1), p \in Priorities \ {Zero} :
          (Stale(i) /\ UpdatePrioritiesCall(<<i>>, <<p>>)) =>
              /\ ret'.exc = "none"
              /\ Leaf(it_sum', i) = RPow(p, alpha)
              /\ Leaf(it_min', i) = RPow(p, alpha)
              /\ \A j \in 0..(Len(storage) - 1) :
                     j # i => /\ Leaf(it_sum', j) = Leaf(it_sum, j)
                              /\ Leaf(it_min', j) = Leaf(it_min, j)
              /\ storage' = storage]_vars

C28_Witness ==
    /\ ret.op = "update_priorities"
    /\ ret.exc = "none"
    /\ ret.idxes = <<0>>
    /\ Stale(0)
    /\ maxsize = 2
    /\ nadds = 3
    /\ sampled.at = 2
    /\ Slot(0).obs = ObsOf(3)
    /\ Leaf(it_sum, 0) = RPow(ret.val[1], alpha)
    /\ Leaf(it_sum, 0) # Leaf(it_sum, 1)

\* the slot the latest add wrote: the one before the cursor
FreshSlot == (next_idx + maxsize - 1) % maxsize

\* the latest call was an add to a priority buffer
JustAdded == kind \in PriorityKinds /\ ret.op = "add" /\ ret.exc = "none"

(* C29: in a priority buffer, immediately after any add, the leaf of the slot
   just written is greater than or equal to the leaf of every other occupied
   slot. *)
C29_FreshLeafIsMaximal ==
    JustAdded =>
        \A j \in 0..(Len(storage) - 1) :
            RLeq(Leaf(it_sum, j), Leaf(it_sum, FreshSlot))

(* C29, amended: immediately after any add the leaf of the slot just written
   is max_priority ** alpha in both trees; max_priority is at least 0.95 ** u
   times the priority last given to any occupied slot, u being the number of
   accepted update_priorities calls, so the fresh leaf is greater than or
   equal to every other occupied leaf as long as no update has been accepted. *)
C29_FreshLeafIsTheDecayedMaximum ==
    JustAdded =>
        /\ Leaf(it_sum, FreshSlot) = RPow(max_priority, alpha)
        /\ Leaf(it_min, FreshSlot) = RPow(max_priority, alpha)
        /\ \A j \in 0..(Len(storage) - 1) :
               /\ RLeq(RMul(RPow(Decay, nupdates), assigned[j + 1]), max_priority)
               /\ nupdates = 0 => RLeq(Leaf(it_sum, j), Leaf(it_sum, FreshSlot))

C29_Witness ==
    /\ JustAdded
    /\ alpha = 1
    /\ maxsize = 2
    /\ nadds = 3
    /\ nupdates = 1
    /\ FreshSlot = 0
    /\ Leaf(it_sum, 0) = <<57, 20>>
    /\ Leaf(it_sum, 1) = <<3, 1>>
    /\ max_priority = <<57, 20>>

(* C30: in a priority buffer of length L, after any sequence of add and
   successful update_priorities calls, the sum-tree leaf and the min-tree leaf
   of every slot i < L hold the same positive value, and every leaf of index
   >= L holds its identity value: 0 in the sum-tree, +infinity in the
   min-tree. *)
C30_LeavesOfOccupiedSlotsAgreeAndTheRestAreIdentity ==
    kind \in PriorityKinds =>
        /\ TreeCap(it_sum) = TreeCap(it_min)
        /\ TreeCap(it_sum) >= Len(storage)
        /\ \A i \in 0..(TreeCap(it_sum) - 1) :
               IF i < Len(storage)
               THEN /\ Leaf(it_sum, i) = Leaf(it_min, i)
                    /\ RLess(Zero, Leaf(it_sum, i))
                    /\ Leaf(it_sum, i) # Inf
               ELSE /\ Leaf(it_sum, i) = Zero
                    /\ Leaf(it_min, i) = Inf

C30_Witness ==
    /\ kind = "PrioritizedEpisodicReplayBuffer"
    /\ alpha = 2
    /\ maxsize = 2
    /\ Len(storage) = 1
    /\ nupdates = 1
    /\ ret.op = "update_priorities"
    /\ ret.exc = "none"
    /\ Leaf(it_sum, 0) = <<9, 1>>
    /\ Leaf(it_min, 0) = <<9, 1>>
    /\ Leaf(it_sum, 1) = Zero
    /\ Leaf(it_min, 1) = Inf

(* C31: in a priority buffer, max_priority starts at 1 and stays strictly
   positive after any sequence of add and successful update_priorities calls,
   so total() > 0 whenever the length is at least 1 and the divisions by
   total() in sample are defined. *)
C31_MaxPriorityAndTotalStayPositive ==
    kind \in PriorityKinds =>
        /\ nupdates = 0 => max_priority = One
        /\ RLess(Zero, max_priority)
        /\ max_priority # Inf
        /\ Len(storage) >= 1 =>
               /\ RLess(Zero, Total(it_sum))
               /\ Total(it_sum) # Inf
               /\ RLess(Zero, Minimum(it_min))
        /\ (ret.op = "sample" /\ Len(storage) >= 1) => ret.exc # "ZeroDivisionError"

C31_Witness ==
    /\ kind = "PrioritizedReplayBuffer"
    /\ alpha = 2
    /\ maxsize = 2
    /\ Len(storage) = 2
    /\ nupdates = 1
    /\ max_priority = <<19, 20>>
    /\ Total(it_sum) = <<2, 1>>
    /\ ret.op = "sample"
    /\ ret.exc = "none"
    /\ Len(ret.val.idxes) = 2

\* key is the episode worker key[1] is currently adding to
OpenEpisode(key) == key[1] \in DOMAIN worker_ep /\ key[2] = worker_ep[key[1]]

\* the terminal record of episode key is stored
TerminalStored(key) ==
    \E i \in 0..(Len(storage) - 1) : Slot(i).ep[1] = key /\ Slot(i).terminal

(* C32: in the episodic buffers, after any adds, every key of the episode
   index is the open episode of some worker or the key of an episode whose
   terminal record is still stored; so the number of keys never exceeds
   capacity + worker_size. *)
C32_IndexKeysAreOpenOrHaveTheirTerminalStored ==
    kind \in EpisodicKinds =>
        /\ \A key \in DOMAIN episodes : OpenEpisode(key) \/ TerminalStored(key)
        /\ \A key \in DOMAIN episodes : ~(OpenEpisode(key) /\ TerminalStored(key))
        /\ Cardinality({key \in DOMAIN episodes : OpenEpisode(key)}) <= WorkerSize
        /\ Cardinality({key \in DOMAIN episodes : TerminalStored(key)}) <= maxsize
        /\ Cardinality(DOMAIN episodes) <= maxsize + WorkerSize

C32_Witness ==
    /\ kind = "EpisodicReplayBuffer"
    /\ maxsize = 1
    /\ nadds = 3
    /\ evicted # <<>>
    /\ evicted[1].terminal
    /\ evicted[1].ep[1] \notin DOMAIN episodes
    /\ Slot(0).terminal
    /\ Cardinality(DOMAIN episodes) = 2
    /\ \E key \in DOMAIN episodes : OpenEpisode(key) /\ episodes[key] = <<0>>
    /\ \E key \in DOMAIN episodes : TerminalStored(key)

(* C33: EfficentReplayBuffer.sample on a buffer of length L >= 1 returns a
   batch without error, its indices drawn from the whole occupied range
   [0, L): slot L - 1 can be drawn and a buffer of one record can be
   sampled. *)
C33_EfficentSampleReturnsABatch ==
    (kind = "EfficentReplayBuffer" /\ ret.op = "sample" /\ storage_size >= 1) =>
        /\ ret.exc = "none"
        /\ Len(ret.val) = Len(ret.idxes)
        /\ \A k \in 1..Len(ret.idxes) : ret.idxes[k] \in 0..(storage_size - 1)

(* C34: sample and can_sample are read-only in every class: after either call
   the stored records, the cursor, the length, both trees, max_priority, the
   episode index and the episode counters are as they were before it. *)
C34_SampleAndCanSampleAreReadOnly ==
    [][ret'.op \in {"sample", "can_sample"} =>
          /\ storage' = storage
          /\ next_idx' = next_idx
          /\ storage_size' = storage_size
          /\ Length' = Length
          /\ it_sum' = it_sum
          /\ it_min' = it_min
          /\ max_priority' = max_priority
          /\ episodes' = episodes
          /\ worker_ep' = worker_ep]_vars

C34_Witness ==
    /\ kind = "EpisodicReplayBuffer"
    /\ n_step = 2
    /\ Len(storage) = 2
    /\ ret.op = "sample"
    /\ ret.exc = "none"
    /\ ret.idxes = <<0, 0>>
    /\ Slot(0).reward = 1
    /\ ret.val[1].reward = <<2, 1>>
    /\ Cardinality(DOMAIN episodes) = 1

IsPowerOfTwo(c) == \E e \in 0..c : 2 ^ e = c

(* C35: for every capacity C >= 1 the loop that sizes the two trees ends with
   a tree capacity that is a power of two, at least C and less than 2 * C, so
   every slot index in [0, C) is a valid leaf index. *)
C35_TreeCapacityIsTheNextPowerOfTwo ==
    (kind \in PriorityKinds /\ maxsize >= 1) =>
        /\ TreeCap(it_sum) = ItCapacity(maxsize)
        /\ TreeCap(it_min) = ItCapacity(maxsize)
        /\ IsPowerOfTwo(ItCapacity(maxsize))
        /\ ItCapacity(maxsize) >= maxsize
        /\ ItCapacity(maxsize) < 2 * maxsize
        /\ \A i \in 0..(maxsize - 1) :
               /\ TreeCap(it_sum) + i \in DOMAIN it_sum
               /\ TreeCap(it_min) + i \in DOMAIN it_min
        /\ \A i \in 0..(Len(storage) - 1) : Leaf(it_sum, i) = RPow(max_priority, alpha)

C35_Witness ==
    /\ kind = "PrioritizedReplayBuffer"
    /\ maxsize = 5
    /\ TreeCap(it_sum) = 8
    /\ Len(it_sum) = 15
    /\ nadds = 3
    /\ Leaf(it_sum, 2) = One
    /\ Leaf(it_sum, 3) = Zero

====
